---- MODULE Spec2Model ----
(***************************************************************************)
(* PixEagle: the orchestration layer (classes/app_controller.py).          *)
(*                                                                         *)
(* AppController runs on one asyncio event loop.  A coroutine runs         *)
(* atomically from one await to the next, so every action below is the     *)
(* code between two awaits of one coroutine:                               *)
(*   - the main loop awaits update_loop(frame) once per frame (the tick)   *)
(*     and, once it has left the loop, shutdown();                         *)
(*   - handle_key_input() wraps every key command in asyncio.create_task,  *)
(*     so connect_px4 / disconnect_px4 run as tasks that interleave with   *)
(*     each other and with the tick at their awaits;                       *)
(*   - the commands without an await run in one step.                      *)
(* The flight link (px4_interface), tracker, detector, segmentor and       *)
(* telemetry handler are external collaborators: each call of theirs       *)
(* either returns or raises, chosen by the environment.  A coroutine       *)
(* suspended at pc "c_connect" has called px4_interface.connect() and      *)
(* waits for it, and so on: the flight-link calls made are exactly the     *)
(* suspension points entered.                                              *)
(***************************************************************************)
EXTENDS Integers, FiniteSets, Sequences, TLC

\* Number of key-command tasks that may be alive at once.
NumTasks == 2
\* Number of distinct video frames the driver feeds.
NumFrames == 1

Tasks == 1..NumTasks
Frames == 1..NumFrames

VARIABLES
    tracking_started,     \* self.tracking_started
    segmentation_active,  \* self.segmentation_active
    following_active,     \* self.following_active
    follower,             \* self.follower: "None" or "Follower"
    setpoint_sender,      \* self.setpoint_sender: "None" or "Running"
    current_frame,        \* self.current_frame: 0 = None, else a frame
    tracker_inited,       \* the tracker's start_tracking has returned at least once
    use_detector,         \* Parameters.USE_DETECTOR
    auto_redetect,        \* Parameters.AUTO_REDETECT
    video_released,       \* video_handler.release() has returned
    pc,                   \* per task: the await its coroutine is suspended at
    tick_pc,              \* the await update_loop is suspended at
    tick_frame,           \* the frame argument of the suspended update_loop
    sd_pc,                \* the await shutdown is suspended at, or "done"
    ret                   \* what the step just taken returned to its caller

\* The Follower (front_view_target_follower.py) and the tracker's centre
\* (base_tracker.py) are units of their own: their arithmetic is specified by
\* SpecFollower and SpecCenter below, with the controller at rest, and they
\* stay Unmodelled while the controller's specification Spec runs.
VARIABLES
    params,               \* the Parameters the Follower reads
    initial_target_coords,\* self.initial_target_coords
    pid,                  \* self.pid_x, self.pid_y, self.pid_z
    latest_velocities,    \* self.latest_velocities
    written,              \* the fields of latest_velocities the last control step wrote
    calc,                 \* the last control step: what it read and computed
    follow_pc,            \* the await Follower.follow_target is suspended at
    snapshot,             \* what the reader of latest_velocities last read
    frame_size,           \* video_handler.width, video_handler.height
    center,               \* tracker.center
    normalized_center     \* tracker.normalized_center

vars == <<tracking_started, segmentation_active, following_active, follower,
          setpoint_sender, current_frame, tracker_inited,
          use_detector, auto_redetect, video_released, pc, tick_pc, tick_frame,
          sd_pc, ret,
          params, initial_target_coords, pid, latest_velocities, written, calc,
          follow_pc, snapshot, frame_size, center, normalized_center>>

ctrl == <<tracking_started, segmentation_active, following_active, follower,
          setpoint_sender>>
tracker == <<tracker_inited>>
config == <<use_detector, auto_redetect>>
tick == <<tick_pc, tick_frame>>
following == <<params, initial_target_coords, pid, latest_velocities, written,
               calc, follow_pc, snapshot>>
centering == <<frame_size, center, normalized_center>>
units == <<following, centering>>

\* The value a call hands back: op, the call; steps and errors, the
\* result dict {"steps": [...], "errors": [...]} of the commands that build one;
\* raised, the call ended in an exception.  NoReturn: the step returned nothing
\* (the coroutine suspended at an await).
Return(o, s, e, x) ==
    [op |-> o, steps |-> s, errors |-> e, raised |-> x, bbox |-> <<>>,
     frame |-> <<>>]
NoReturn == Return("none", {}, {}, FALSE)

\* The return of a call that asked the user for a box: bbox, the width and
\* height cv2.selectROI handed back (<<>> for every call that selects none).
Selected(r, w, h) == [r EXCEPT !.bbox = <<w, h>>]

\* The return of a call that ran initiate_redetection with the detector in
\* use: frame, the frame it handed to detector.smart_redetection and, when a
\* box was found, to tracker.reinitialize_tracker (<<>> for every call that
\* runs no redetection).
Redetected(r, fr) == [r EXCEPT !.frame = <<fr>>]

ConnectPcs == {"c_connect", "c_initsp", "c_offboard"}

\* A unit the running specification does not model.
Unmodelled == "unmodelled"
FollowerUnmodelled ==
    /\ params = Unmodelled
    /\ initial_target_coords = Unmodelled
    /\ pid = Unmodelled
    /\ latest_velocities = Unmodelled
    /\ written = Unmodelled
    /\ calc = Unmodelled
    /\ follow_pc = Unmodelled
    /\ snapshot = Unmodelled
CenterUnmodelled ==
    /\ frame_size = Unmodelled
    /\ center = Unmodelled
    /\ normalized_center = Unmodelled

\* AppController.__init__
Init ==
    /\ tracking_started = FALSE
    /\ segmentation_active = FALSE
    /\ following_active = FALSE
    /\ follower = "None"
    /\ setpoint_sender = "None"
    /\ current_frame = 0
    /\ tracker_inited = FALSE
    /\ use_detector \in BOOLEAN
    /\ auto_redetect \in BOOLEAN
    /\ video_released = FALSE
    /\ pc = [t \in Tasks |-> "idle"]
    /\ tick_pc = "idle"
    /\ tick_frame = 0
    /\ sd_pc = "idle"
    /\ ret = NoReturn
    /\ FollowerUnmodelled
    /\ CenterUnmodelled

\* The main loop is still inside its frame loop: it has not called shutdown.
InLoop == sd_pc = "idle"

\* The event loop still runs: shutdown has not returned.  A key task created
\* in the frame loop may get to run only while shutdown is suspended.
Running == sd_pc /= "done"

\* A task slot is free for a new key command.
Free(t) == pc[t] = "idle"

----------------------------------------------------------------------------
\* cancel_activities() without line 156: segmentation is left as it is.
cancel_activities_keeps_segmentation ==
    /\ tracking_started' = FALSE
    /\ segmentation_active' = segmentation_active
    /\ setpoint_sender' = IF setpoint_sender /= "None" THEN "None" ELSE setpoint_sender

\* cancel_activities(): the assignments of the method.
cancel_activities ==
    /\ tracking_started' = FALSE
    /\ segmentation_active' = FALSE
    /\ setpoint_sender' = IF setpoint_sender /= "None" THEN "None" ELSE setpoint_sender

\* key 'c' with a cancel_activities() that also drops the following flag.
CancelActivities_clears_following ==
    /\ Running
    /\ cancel_activities
    /\ following_active' = FALSE
    /\ ret' = Return("cancel_activities", {}, {}, FALSE)
    /\ UNCHANGED <<follower, current_frame>>
    /\ UNCHANGED <<tracker, config, units, video_released, pc, tick, sd_pc>>

\* key 'c': cancel_activities()
CancelActivities ==
    /\ Running
    /\ cancel_activities
    /\ ret' = Return("cancel_activities", {}, {}, FALSE)
    /\ UNCHANGED <<following_active, follower, current_frame>>
    /\ UNCHANGED <<tracker, config, units, video_released, pc, tick, sd_pc>>

\* key 'y': toggle_segmentation()
ToggleSegmentation ==
    /\ Running
    /\ segmentation_active' = ~segmentation_active
    /\ ret' = Return("toggle_segmentation", {}, {}, FALSE)
    /\ UNCHANGED <<tracking_started, following_active, follower,
                   setpoint_sender, current_frame>>
    /\ UNCHANGED <<tracker, config, units, video_released, pc, tick, sd_pc>>

\* tracker.start_tracking(frame, bbox) / tracker.reinitialize_tracker(frame, bbox)
\* returning normally (base_tracker.py: reinitialize_tracker is start_tracking).
\* f: the frame handed to the tracker.
tracker_start(f) ==
    tracker_inited' = TRUE

\* toggle_tracking that takes any box selectROI returns, degenerate or not.
ToggleTracking_any_box(f, w, h, trackerOk) ==
    /\ Running
    /\ IF ~tracking_started
       THEN /\ IF trackerOk
               THEN /\ tracker_start(f)
                    /\ tracking_started' = TRUE
               ELSE UNCHANGED <<tracker_inited, tracking_started>>
            /\ ret' = Selected(Return("toggle_tracking", {}, {}, ~trackerOk), w, h)
            /\ UNCHANGED <<segmentation_active, setpoint_sender>>
       ELSE /\ cancel_activities
            /\ ret' = Return("toggle_tracking", {}, {}, FALSE)
            /\ UNCHANGED tracker_inited
    /\ UNCHANGED <<following_active, follower, current_frame>>
    /\ UNCHANGED <<config, units, video_released, pc, tick, sd_pc>>

\* key 't': toggle_tracking(frame).  w, h: the size of the box selectROI
\* returns (0 when the selection is cancelled); trackerOk: whether
\* tracker.start_tracking returns or raises (the exception ends the key task).
\* detector.extract_features runs after the flag is set and changes no state
\* of the controller.
ToggleTracking(f, w, h, trackerOk) ==
    /\ Running
    /\ IF ~tracking_started
       THEN /\ IF w > 0 /\ h > 0 /\ trackerOk
               THEN /\ tracker_start(f)
                    /\ tracking_started' = TRUE
               ELSE UNCHANGED <<tracker_inited, tracking_started>>
            /\ ret' = Selected(Return("toggle_tracking", {}, {},
                                    w > 0 /\ h > 0 /\ ~trackerOk), w, h)
            /\ UNCHANGED <<segmentation_active, setpoint_sender>>
       ELSE /\ cancel_activities
            /\ ret' = Return("toggle_tracking", {}, {}, FALSE)
            /\ UNCHANGED tracker_inited
    /\ UNCHANGED <<following_active, follower, current_frame>>
    /\ UNCHANGED <<config, units, video_released, pc, tick, sd_pc>>

\* API: start_tracking(bbox), bbox = {x, y, width: w, height: h}.
StartTracking(w, h, trackerOk) ==
    /\ Running
    /\ IF ~tracking_started
       THEN /\ IF trackerOk
               THEN /\ tracker_start(current_frame)
                    /\ tracking_started' = TRUE
               ELSE UNCHANGED <<tracker_inited, tracking_started>>
            /\ ret' = Return("start_tracking", {}, {}, ~trackerOk)
       ELSE /\ ret' = Return("start_tracking", {}, {}, FALSE)
            /\ UNCHANGED <<tracker_inited, tracking_started>>
    /\ UNCHANGED <<segmentation_active, setpoint_sender, following_active,
                   follower, current_frame>>
    /\ UNCHANGED <<config, units, video_released, pc, tick, sd_pc>>

\* stop_tracking that clears the tracking flag and nothing else.
StopTracking_only_clears_flag ==
    /\ Running
    /\ tracking_started' = FALSE
    /\ ret' = Return("stop_tracking", {}, {}, FALSE)
    /\ UNCHANGED <<segmentation_active, setpoint_sender>>
    /\ UNCHANGED <<following_active, follower, current_frame>>
    /\ UNCHANGED <<tracker, config, units, video_released, pc, tick, sd_pc>>

\* API: stop_tracking()
StopTracking ==
    /\ Running
    /\ IF tracking_started
       THEN cancel_activities
       ELSE UNCHANGED <<tracking_started, segmentation_active, setpoint_sender>>
    /\ ret' = Return("stop_tracking", {}, {}, FALSE)
    /\ UNCHANGED <<following_active, follower, current_frame>>
    /\ UNCHANGED <<tracker, config, units, video_released, pc, tick, sd_pc>>

\* handle_user_click that sets the tracking flag before it calls the tracker.
HandleUserClick_flag_first(hit, trackerOk) ==
    /\ Running
    /\ IF segmentation_active /\ hit
       THEN /\ tracking_started' = TRUE
            /\ IF trackerOk
               THEN tracker_start(current_frame)
               ELSE UNCHANGED tracker_inited
            /\ ret' = Return("handle_user_click", {}, {}, ~trackerOk)
       ELSE /\ ret' = Return("handle_user_click", {}, {}, FALSE)
            /\ UNCHANGED <<tracker_inited, tracking_started>>
    /\ UNCHANGED <<segmentation_active, setpoint_sender, following_active,
                   follower, current_frame>>
    /\ UNCHANGED <<config, units, video_released, pc, tick, sd_pc>>

\* Mouse click: on_mouse_click -> handle_user_click(x, y).  hit: the click lies
\* inside one of the segmentor's last detections (identify_clicked_object).
HandleUserClick(hit, trackerOk) ==
    /\ Running
    /\ IF segmentation_active /\ hit
       THEN /\ IF trackerOk
               THEN /\ tracker_start(current_frame)
                    /\ tracking_started' = TRUE
               ELSE UNCHANGED <<tracker_inited, tracking_started>>
            /\ ret' = Return("handle_user_click", {}, {}, ~trackerOk)
       ELSE /\ ret' = Return("handle_user_click", {}, {}, FALSE)
            /\ UNCHANGED <<tracker_inited, tracking_started>>
    /\ UNCHANGED <<segmentation_active, setpoint_sender, following_active,
                   follower, current_frame>>
    /\ UNCHANGED <<config, units, video_released, pc, tick, sd_pc>>

\* initiate_redetection(): its effect on the tracker.  red: what the detector
\* does: "none" (smart_redetection false or no bbox), "found" (true, with a
\* bbox), "fault" (the detector or the tracker raises).
initiate_redetection(red) ==
    IF use_detector /\ red = "found"
    THEN tracker_start(current_frame)
    ELSE UNCHANGED tracker_inited

\* key 'd': initiate_redetection()
Redetect(red) ==
    /\ Running
    /\ initiate_redetection(red)
    /\ ret' = LET r == Return("initiate_redetection", {}, {},
                             use_detector /\ red = "fault")
              IN IF use_detector THEN Redetected(r, current_frame) ELSE r
    /\ UNCHANGED <<ctrl, current_frame, config, units, video_released, pc, tick, sd_pc>>

----------------------------------------------------------------------------
\* f"Failed to connect/start offboard mode: {e}" and the like: the message of
\* an except block, e being the exception of the call that raised.
ConnectError(e) == <<"Failed to connect/start offboard mode", e>>
DisconnectError(e) == <<"Failed to stop offboard mode", e>>
ShutdownError(e) == <<"Error during shutdown", e>>

\* key 'f': connect_px4(), up to its first await (px4_interface.connect()).
ConnectBegin(t) ==
    /\ Running
    /\ Free(t)
    /\ IF ~following_active
       THEN /\ pc' = [pc EXCEPT ![t] = "c_connect"]
            /\ ret' = NoReturn
       ELSE /\ ret' = Return("connect", {"Follow mode already active."}, {}, FALSE)
            /\ UNCHANGED pc
    /\ UNCHANGED <<ctrl, current_frame, tracker, config, units, video_released, tick, sd_pc>>

\* connect_px4 that goes from the Follower straight to start_offboard_mode,
\* without the initial setpoint.
ConnectLinkDone_skips_setpoint(t, ok, folOk) ==
    /\ pc[t] = "c_connect"
    /\ IF ok /\ folOk
       THEN /\ follower' = "Follower"
            /\ pc' = [pc EXCEPT ![t] = "c_offboard"]
            /\ ret' = NoReturn
       ELSE /\ pc' = [pc EXCEPT ![t] = "idle"]
            /\ ret' = Return("connect", {},
                             {ConnectError(IF ok THEN "Follower" ELSE "connect")}, FALSE)
            /\ UNCHANGED follower
    /\ UNCHANGED <<tracking_started, segmentation_active, following_active,
                   setpoint_sender>>
    /\ UNCHANGED <<current_frame, tracker, config, units, video_released, tick, sd_pc>>

\* connect_px4(): px4_interface.connect() has ended (ok: returned, else raised);
\* on return the Follower is constructed (folOk: the constructor returns) and
\* send_initial_setpoint() is awaited.
ConnectLinkDone(t, ok, folOk) ==
    /\ pc[t] = "c_connect"
    /\ IF ok /\ folOk
       THEN /\ follower' = "Follower"
            /\ pc' = [pc EXCEPT ![t] = "c_initsp"]
            /\ ret' = NoReturn
       ELSE /\ pc' = [pc EXCEPT ![t] = "idle"]
            /\ ret' = Return("connect", {},
                             {ConnectError(IF ok THEN "Follower" ELSE "connect")}, FALSE)
            /\ UNCHANGED follower
    /\ UNCHANGED <<tracking_started, segmentation_active, following_active,
                   setpoint_sender>>
    /\ UNCHANGED <<current_frame, tracker, config, units, video_released, tick, sd_pc>>

\* connect_px4(): send_initial_setpoint() has ended; on return
\* start_offboard_mode() is awaited.
ConnectInitSpDone(t, ok) ==
    /\ pc[t] = "c_initsp"
    /\ IF ok
       THEN /\ pc' = [pc EXCEPT ![t] = "c_offboard"]
            /\ ret' = NoReturn
       ELSE /\ pc' = [pc EXCEPT ![t] = "idle"]
            /\ ret' = Return("connect", {}, {ConnectError("send_initial_setpoint")}, FALSE)
    /\ UNCHANGED <<ctrl, current_frame, tracker, config, units, video_released, tick, sd_pc>>

\* connect_px4(): start_offboard_mode() has ended; on return the flag is set.
ConnectOffboardDone(t, ok) ==
    /\ pc[t] = "c_offboard"
    /\ pc' = [pc EXCEPT ![t] = "idle"]
    /\ IF ok
       THEN /\ following_active' = TRUE
            /\ ret' = Return("connect", {"Offboard mode started."}, {}, FALSE)
       ELSE /\ ret' = Return("connect", {}, {ConnectError("start_offboard_mode")}, FALSE)
            /\ UNCHANGED following_active
    /\ UNCHANGED <<tracking_started, segmentation_active, follower, setpoint_sender>>
    /\ UNCHANGED <<current_frame, tracker, config, units, video_released, tick, sd_pc>>

\* disconnect_px4() without the test of line 352: offboard mode is stopped
\* whatever the flag says.
DisconnectBegin_unguarded(t) ==
    /\ Running
    /\ Free(t)
    /\ pc' = [pc EXCEPT ![t] = "d_stop"]
    /\ ret' = NoReturn
    /\ UNCHANGED <<ctrl, current_frame, tracker, config, units, video_released, tick, sd_pc>>

\* key 'x': disconnect_px4(), up to its await (px4_interface.stop_offboard_mode()).
DisconnectBegin(t) ==
    /\ Running
    /\ Free(t)
    /\ IF following_active
       THEN /\ pc' = [pc EXCEPT ![t] = "d_stop"]
            /\ ret' = NoReturn
       ELSE /\ ret' = Return("disconnect", {"Follow mode is not active."}, {}, FALSE)
            /\ UNCHANGED pc
    /\ UNCHANGED <<ctrl, current_frame, tracker, config, units, video_released, tick, sd_pc>>

\* disconnect_px4(): stop_offboard_mode() has ended.
DisconnectStopDone(t, ok) ==
    /\ pc[t] = "d_stop"
    /\ pc' = [pc EXCEPT ![t] = "idle"]
    /\ IF ok
       THEN /\ setpoint_sender' = IF setpoint_sender /= "None" THEN "None" ELSE setpoint_sender
            /\ following_active' = FALSE
            /\ ret' = Return("disconnect", {"Offboard mode stopped."}, {}, FALSE)
       ELSE /\ ret' = Return("disconnect", {}, {DisconnectError("stop_offboard_mode")}, FALSE)
            /\ UNCHANGED <<setpoint_sender, following_active>>
    /\ UNCHANGED <<tracking_started, segmentation_active, follower>>
    /\ UNCHANGED <<current_frame, tracker, config, units, video_released, tick, sd_pc>>

----------------------------------------------------------------------------
\* update_loop(): an exception leaves the coroutine; nothing after the raising
\* call runs.
TickRaise ==
    /\ tick_pc' = "idle"
    /\ tick_frame' = 0
    /\ ret' = Return("tick", {}, {}, TRUE)

\* update_loop() lines 188-206 of a tick whose update failed with redetection
\* enabled: initiate_redetection() runs on self.current_frame, the frame does
\* not reach it; then telemetry, self.current_frame = frame, return frame.
TickRedetect(f, red, telOk) ==
    /\ initiate_redetection(red)
    /\ tick_pc' = "idle"
    /\ tick_frame' = 0
    /\ IF red /= "fault" /\ telOk
       THEN /\ current_frame' = f
            /\ ret' = Redetected(Return("tick", {}, {}, FALSE), current_frame)
       ELSE /\ ret' = Redetected(Return("tick", {}, {}, TRUE), current_frame)
            /\ UNCHANGED current_frame

\* update_loop() lines 191-206: telemetry (telOk: send_telemetry returns),
\* self.current_frame = frame, return frame.
TickFinish(f, telOk) ==
    IF telOk
    THEN /\ current_frame' = f
         /\ tick_pc' = "idle"
         /\ tick_frame' = 0
         /\ ret' = Return("tick", {}, {}, FALSE)
    ELSE /\ TickRaise
         /\ UNCHANGED current_frame

\* update_loop that follows the target whatever the session is.
TickBegin_follows_any_session(f, segOk, upd, red, telOk) ==
    /\ InLoop
    /\ tick_pc = "idle"
    /\ LET segFault == segmentation_active /\ ~segOk
           updFault == tracking_started /\ upd = "fault"
           follow == tracking_started /\ upd = "ok"
           redetect == tracking_started /\ upd = "lost" /\ use_detector /\ auto_redetect
       IN  IF segFault \/ updFault
           THEN /\ TickRaise
                /\ UNCHANGED <<current_frame, tracker>>
           ELSE IF follow
           THEN /\ tick_pc' = "f_send1"
                /\ tick_frame' = f
                /\ ret' = NoReturn
                /\ UNCHANGED <<current_frame, tracker>>
           ELSE IF redetect
           THEN TickRedetect(f, red, telOk)
           ELSE /\ TickFinish(f, telOk)
                /\ UNCHANGED tracker
    /\ UNCHANGED <<ctrl, config, units, video_released, pc, sd_pc>>

\* update_loop that gives tracking up when the update fails and redetection
\* finds no box.
TickBegin_lost_stops_tracking(f, segOk, upd, red, telOk) ==
    /\ InLoop
    /\ tick_pc = "idle"
    /\ LET segFault == segmentation_active /\ ~segOk
           updFault == tracking_started /\ upd = "fault"
           follow == tracking_started /\ upd = "ok" /\ following_active
           redetect == tracking_started /\ upd = "lost" /\ use_detector /\ auto_redetect
       IN  /\ tracking_started' =
                 IF ~segFault /\ tracking_started /\ upd = "lost" /\ red /= "found"
                 THEN FALSE
                 ELSE tracking_started
           /\ IF segFault \/ updFault
              THEN /\ TickRaise
                   /\ UNCHANGED <<current_frame, tracker>>
              ELSE IF follow
              THEN /\ tick_pc' = "f_send1"
                   /\ tick_frame' = f
                   /\ ret' = NoReturn
                   /\ UNCHANGED <<current_frame, tracker>>
              ELSE IF redetect
              THEN TickRedetect(f, red, telOk)
              ELSE /\ TickFinish(f, telOk)
                   /\ UNCHANGED tracker
    /\ UNCHANGED <<segmentation_active, following_active, follower, setpoint_sender>>
    /\ UNCHANGED <<config, units, video_released, pc, sd_pc>>

\* update_loop(frame), up to its first await or to its end.
\*   segOk: segmentor.segment_frame returns;
\*   upd: tracker.update returns (True, _) "ok", (False, _) "lost", or raises "fault";
\*   red: the detector's answer in initiate_redetection;
\*   telOk: the telemetry handler returns.
TickBegin(f, segOk, upd, red, telOk) ==
    /\ InLoop
    /\ tick_pc = "idle"
    /\ LET segFault == segmentation_active /\ ~segOk
           updFault == tracking_started /\ upd = "fault"
           follow == tracking_started /\ upd = "ok" /\ following_active
           redetect == tracking_started /\ upd = "lost" /\ use_detector /\ auto_redetect
       IN  IF segFault \/ updFault
           THEN /\ TickRaise
                /\ UNCHANGED <<current_frame, tracker>>
           ELSE IF follow
           THEN \* follow_target(): follower.follow_target computes the command
                \* and awaits send_body_velocity_commands
                /\ tick_pc' = "f_send1"
                /\ tick_frame' = f
                /\ ret' = NoReturn
                /\ UNCHANGED <<current_frame, tracker>>
           ELSE IF redetect
           THEN TickRedetect(f, red, telOk)
           ELSE /\ TickFinish(f, telOk)
                /\ UNCHANGED tracker
    /\ UNCHANGED <<ctrl, config, units, video_released, pc, sd_pc>>

\* follow_target() line 375-377: follower.follow_target's send has ended; on
\* return update_setpoint and the second send_body_velocity_commands is awaited.
TickSend1Done(ok) ==
    /\ tick_pc = "f_send1"
    /\ IF ok
       THEN /\ tick_pc' = "f_send2"
            /\ ret' = NoReturn
            /\ UNCHANGED tick_frame
       ELSE TickRaise
    /\ UNCHANGED <<ctrl, current_frame, tracker, config, units, video_released, pc, sd_pc>>

\* follow_target() line 377-378: the second send has ended; on return the tick
\* goes on to telemetry and its end.
TickSend2Done(ok, telOk) ==
    /\ tick_pc = "f_send2"
    /\ IF ok
       THEN TickFinish(tick_frame, telOk)
       ELSE /\ TickRaise
            /\ UNCHANGED current_frame
    /\ UNCHANGED <<ctrl, tracker, config, units, video_released, pc, sd_pc>>

----------------------------------------------------------------------------
\* shutdown() lines 402-404: the capture is released (relOk:
\* video_handler.release returns) and the step is reported.
shutdown_release(relOk) ==
    IF relOk
    THEN /\ video_released' = TRUE
         /\ ret' = Return("shutdown", {"Shutdown complete."}, {}, FALSE)
    ELSE /\ ret' = Return("shutdown", {}, {ShutdownError("release")}, FALSE)
         /\ UNCHANGED video_released

\* shutdown(), called by the main loop after its last tick, up to its await.
\*   mavlink_enabled: Parameters.mavlink_enabled, read here only;
\*   pollOk: mavlink_data_manager.stop_polling returns.
ShutdownBegin(mavlink_enabled, pollOk, relOk) ==
    /\ InLoop
    /\ tick_pc = "idle"
    /\ IF mavlink_enabled /\ ~pollOk
       THEN /\ sd_pc' = "done"
            /\ ret' = Return("shutdown", {}, {ShutdownError("stop_polling")}, FALSE)
            /\ UNCHANGED video_released
       ELSE IF following_active
            THEN /\ sd_pc' = "s_stop"
                 /\ ret' = NoReturn
                 /\ UNCHANGED video_released
            ELSE /\ sd_pc' = "done"
                 /\ shutdown_release(relOk)
    /\ UNCHANGED <<ctrl, current_frame, tracker, config, units, pc, tick>>

\* shutdown(): stop_offboard_mode() has ended (lines 397-404): the sender is
\* stopped and joined, its reference kept, and the flag is cleared.
ShutdownStopDone(ok, relOk) ==
    /\ sd_pc = "s_stop"
    /\ sd_pc' = "done"
    /\ IF ok
       THEN /\ following_active' = FALSE
            /\ shutdown_release(relOk)
       ELSE /\ ret' = Return("shutdown", {}, {ShutdownError("stop_offboard_mode")}, FALSE)
            /\ UNCHANGED <<following_active, video_released>>
    /\ UNCHANGED <<tracking_started, segmentation_active, follower, setpoint_sender>>
    /\ UNCHANGED <<current_frame, tracker, config, units, pc, tick>>

----------------------------------------------------------------------------
\* Inputs are drawn only where the code consults them.
Sizes == 0..1
Outcomes(consulted) == IF consulted THEN BOOLEAN ELSE {TRUE}
Detections(consulted) == IF consulted THEN {"none", "found", "fault"} ELSE {"none"}
Updates == IF tracking_started THEN {"ok", "lost", "fault"} ELSE {"ok"}

Next ==
    \/ CancelActivities
    \/ ToggleSegmentation
    \/ \E f \in Frames, w \in Sizes, h \in Sizes :
          \E ok \in Outcomes(~tracking_started /\ w > 0 /\ h > 0) :
             ToggleTracking(f, w, h, ok)
    \/ \E w \in Sizes, h \in Sizes, ok \in Outcomes(~tracking_started) :
          StartTracking(w, h, ok)
    \/ StopTracking
    \/ \E hit \in BOOLEAN : \E ok \in Outcomes(segmentation_active /\ hit) :
          HandleUserClick(hit, ok)
    \/ \E red \in Detections(use_detector) : Redetect(red)
    \/ \E t \in Tasks : ConnectBegin(t)
    \/ \E t \in Tasks, ok \in BOOLEAN : \E folOk \in Outcomes(ok) :
          ConnectLinkDone(t, ok, folOk)
    \/ \E t \in Tasks, ok \in BOOLEAN : ConnectInitSpDone(t, ok)
    \/ \E t \in Tasks, ok \in BOOLEAN : ConnectOffboardDone(t, ok)
    \/ \E t \in Tasks : DisconnectBegin(t)
    \/ \E t \in Tasks, ok \in BOOLEAN : DisconnectStopDone(t, ok)
    \/ \E f \in Frames, segOk \in Outcomes(segmentation_active), upd \in Updates :
          \E red \in Detections(upd = "lost" /\ use_detector /\ auto_redetect) :
             \E telOk \in Outcomes(segOk /\ upd /= "fault" /\ red /= "fault") :
                TickBegin(f, segOk, upd, red, telOk)
    \/ \E ok \in BOOLEAN : TickSend1Done(ok)
    \/ \E ok \in BOOLEAN : \E telOk \in Outcomes(ok) : TickSend2Done(ok, telOk)
    \/ \E m \in BOOLEAN : \E pollOk \in Outcomes(m) :
          \E relOk \in Outcomes(pollOk /\ ~following_active) :
             ShutdownBegin(m, pollOk, relOk)
    \/ \E ok \in BOOLEAN : \E relOk \in Outcomes(ok) : ShutdownStopDone(ok, relOk)

Spec == Init /\ [][Next]_vars

----------------------------------------------------------------------------
\* The Follower: front_view_target_follower.py.  Image coordinates,
\* altitudes, gains and velocities are integers (the code's floats on a grid).

MaxCoord == 1

Axes == {"x", "y", "z"}
\* The coordinates a target is given at: the frame's centre and its two
\* edges on each axis.
Coords == {-MaxCoord, 0, MaxCoord}

\* The controller while a unit is specified on its own: as constructed.
ControllerAtRest ==
    /\ tracking_started = FALSE
    /\ segmentation_active = FALSE
    /\ following_active = FALSE
    /\ follower = "None"
    /\ setpoint_sender = "None"
    /\ current_frame = 0
    /\ tracker_inited = FALSE
    /\ use_detector = FALSE
    /\ auto_redetect = FALSE
    /\ video_released = FALSE
    /\ pc = [t \in Tasks |-> "idle"]
    /\ tick_pc = "idle"
    /\ tick_frame = 0
    /\ sd_pc = "idle"
    /\ ret = NoReturn
controller == <<ctrl, current_frame, tracker, config, video_released, pc, tick,
                sd_pc, ret>>

\* getattr(px4_controller, Parameters.GAIN_SCHEDULING_PARAMETER, None): a
\* value, or None when the controller has no such attribute.
Reading(v) == [available |-> TRUE, value |-> v]
NoReading == [available |-> FALSE, value |-> 0]

\* A gain triple (p, i, d).
Gains(kp, ki, kd) == [p |-> kp, i |-> ki, d |-> kd]

\* The Parameters that are one fixed choice here: the limits, the floor, the
\* default gains, a schedule of two adjacent intervals [0,1) and [1,2), and
\* the adjustment factors.
VELOCITY_LIMITS == [x |-> 2, y |-> 1, z |-> 1]
MIN_DESCENT_HEIGHT == 1
PID_GAINS == [x |-> Gains(1, 0, 0), y |-> Gains(2, 0, 0), z |-> Gains(1, 0, 0)]
ALTITUDE_GAIN_SCHEDULE ==
    << [lower |-> 0, upper |-> 1,
        gains |-> [x |-> Gains(2, 0, 0), y |-> Gains(3, 0, 0), z |-> Gains(2, 0, 0)]],
       [lower |-> 1, upper |-> 2,
        gains |-> [x |-> Gains(3, 0, 0), y |-> Gains(4, 0, 0), z |-> Gains(0, 1, 0)]] >>
BASE_ADJUSTMENT_FACTOR_X == 2
BASE_ADJUSTMENT_FACTOR_Y == 0
ALTITUDE_FACTOR == 1
DEFAULT_DISTANCE == 1

\* px4_controller.current_altitude: below the floor, at it, above it.
Altitudes == {MIN_DESCENT_HEIGHT - 1, MIN_DESCENT_HEIGHT, MIN_DESCENT_HEIGHT + 1}

\* The readings get_pid_gains may be given: none, or a bound of an interval
\* of the schedule (inside it, between two intervals, past the last one).
Readings ==
    {NoReading} \cup
    {Reading(v) : v \in {ALTITUDE_GAIN_SCHEDULE[k].lower : k \in DOMAIN ALTITUDE_GAIN_SCHEDULE}
                      \cup {ALTITUDE_GAIN_SCHEDULE[k].upper : k \in DOMAIN ALTITUDE_GAIN_SCHEDULE}}

\* The Parameters that vary from one Follower to another: the strategy, the
\* camera mount, the two switches and the descent rate (at the z limit or
\* above it).
ParameterSets ==
    [CONTROL_STRATEGY : {"constant_altitude", "constant_distance"},
     IS_CAMERA_GIMBALED : BOOLEAN,
     ENABLE_GAIN_SCHEDULING : BOOLEAN,
     ENABLE_DESCEND_TO_TARGET : BOOLEAN,
     MAX_RATE_OF_DESCENT : {VELOCITY_LIMITS["z"], VELOCITY_LIMITS["z"] + 1}]

\* Follower.__init__: the target lock, initial_target_coords in mode
\* 'initial' and Parameters.DESIRE_AIM otherwise: the frame centre, an edge
\* or a corner.
Aims == {<<a, b>> : a \in {0, MaxCoord}, b \in {0, MaxCoord}}

\* get_pid_gains with the upper bound of an interval taken as inside it.
get_pid_gains_closed(P, axis, reading) ==
    IF P.ENABLE_GAIN_SCHEDULING /\ reading.available
    THEN LET schedule == ALTITUDE_GAIN_SCHEDULE
             hits == {k \in DOMAIN schedule :
                         /\ schedule[k].lower <= reading.value
                         /\ reading.value <= schedule[k].upper}
         IN IF hits = {}
            THEN PID_GAINS[axis]
            ELSE schedule[CHOOSE k \in hits : \A j \in hits : k <= j].gains[axis]
    ELSE PID_GAINS[axis]

\* get_pid_gains(axis): the first interval of the schedule, in its order,
\* with lower_bound <= current_value < upper_bound; the default gains when
\* scheduling is off, the value is None or no interval holds it.
get_pid_gains(P, axis, reading) ==
    IF P.ENABLE_GAIN_SCHEDULING /\ reading.available
    THEN LET schedule == ALTITUDE_GAIN_SCHEDULE
             hits == {k \in DOMAIN schedule :
                         /\ schedule[k].lower <= reading.value
                         /\ reading.value < schedule[k].upper}
         IN IF hits = {}
            THEN PID_GAINS[axis]
            ELSE schedule[CHOOSE k \in hits : \A j \in hits : k <= j].gains[axis]
    ELSE PID_GAINS[axis]

\* CustomPID(*gains, setpoint=s, output_limits=(lo, hi)): a PIDAxisState with
\* an empty integral accumulator and no last error yet.  (The last timestamp
\* is written where the last error is, and is not kept apart from it.)
CustomPID(gains, s, lo, hi) ==
    [tunings |-> gains, setpoint |-> s, lower |-> lo, upper |-> hi,
     integral |-> 0, last_error |-> <<>>]

Clamp(v, lo, hi) == IF v < lo THEN lo ELSE IF v > hi THEN hi ELSE v

\* CustomPID.__call__(input), before the clamp: the proportional term and the
\* integral accumulator with this evaluation's error added.  (No gain table
\* here has a derivative gain.)
PIDRaw(c, input) ==
    LET error == c.setpoint - input
    IN c.tunings.p * error + c.integral + c.tunings.i * error

\* CustomPID.__call__(input): the controller's output for one input, clamped
\* to its output limits.
PIDOutput(c, input) ==
    Clamp(PIDRaw(c, input), c.lower, c.upper)

\* CustomPID.__call__(input): the PIDAxisState the evaluation leaves.  The
\* error is stored; the accumulator takes it in unless the output is clamped
\* (anti-windup).
PIDEvaluated(c, input) ==
    LET error == c.setpoint - input
        clamped == PIDRaw(c, input) /= PIDOutput(c, input)
    IN [c EXCEPT !.integral = IF clamped THEN @ ELSE @ + c.tunings.i * error,
                 !.last_error = <<error>>]

\* initialize_pids with the x limit given to pid_y as well.
initialize_pids_x_limit(P, aim, reading) ==
    LET setpoint_x == aim[1]
        setpoint_y == aim[2]
        limits == VELOCITY_LIMITS
        pid_y == CustomPID(get_pid_gains(P, "y", reading), setpoint_x,
                           -limits["x"], limits["x"])
    IN IF P.CONTROL_STRATEGY = "constant_altitude"
       THEN [y |-> pid_y,
             x |-> CustomPID(get_pid_gains(P, "x", reading), setpoint_y,
                             -limits["x"], limits["x"]),
             z |-> CustomPID(get_pid_gains(P, "z", reading), MIN_DESCENT_HEIGHT,
                             -P.MAX_RATE_OF_DESCENT, P.MAX_RATE_OF_DESCENT)]
       ELSE [y |-> pid_y,
             z |-> CustomPID(get_pid_gains(P, "z", reading), setpoint_y,
                             -limits["z"], limits["z"]),
             x |-> CustomPID(get_pid_gains(P, "x", reading), 0, 0, 0)]

\* initialize_pids()
initialize_pids(P, aim, reading) ==
    LET setpoint_x == aim[1]
        setpoint_y == aim[2]
        limits == VELOCITY_LIMITS
        pid_y == CustomPID(get_pid_gains(P, "y", reading), setpoint_x,
                           -limits["y"], limits["y"])
    IN IF P.CONTROL_STRATEGY = "constant_altitude"
       THEN [y |-> pid_y,
             x |-> CustomPID(get_pid_gains(P, "x", reading), setpoint_y,
                             -limits["x"], limits["x"]),
             z |-> CustomPID(get_pid_gains(P, "z", reading), MIN_DESCENT_HEIGHT,
                             -P.MAX_RATE_OF_DESCENT, P.MAX_RATE_OF_DESCENT)]
       ELSE [y |-> pid_y,
             z |-> CustomPID(get_pid_gains(P, "z", reading), setpoint_y,
                             -limits["z"], limits["z"]),
             x |-> CustomPID(get_pid_gains(P, "x", reading), 0, 0, 0)]

\* update_pid_gains()
update_pid_gains(pids, P, reading) ==
    [a \in Axes |-> [pids[a] EXCEPT !.tunings = get_pid_gains(P, a, reading)]]

\* apply_gimbal_corrections(target_coords).  attitude: for a camera that is
\* not gimbaled, the two terms the code adds to the coordinates,
\* default_distance * roll + r * cos(roll) and
\* -default_distance * pitch + r * sin(roll), as the orientation read from
\* px4_controller makes them (rounded to the grid).
apply_gimbal_corrections(P, target, attitude) ==
    IF P.IS_CAMERA_GIMBALED
    THEN target
    ELSE <<target[1] + attitude[1], target[2] + attitude[2]>>

\* apply_adjustment_factors(adjusted_target_x, adjusted_target_y)
apply_adjustment_factors(P, adjusted) ==
    LET adj_factor_x ==
            BASE_ADJUSTMENT_FACTOR_X \div (1 + ALTITUDE_FACTOR * DEFAULT_DISTANCE)
        adj_factor_y ==
            BASE_ADJUSTMENT_FACTOR_Y \div (1 + ALTITUDE_FACTOR * DEFAULT_DISTANCE)
    IN <<adjusted[1] + adj_factor_x, adjusted[2] + adj_factor_y>>

\* What a descent controller hands back: vel_z, and whether pid_z was called.
Descent(v, called) == [vel_z |-> v, pid_z_called |-> called]

\* control_descent_constant_altitude with the floor itself taken as above it.
control_descent_constant_altitude_at_floor(pids, P, current_altitude) ==
    IF ~P.ENABLE_DESCEND_TO_TARGET
    THEN Descent(0, FALSE)
    ELSE IF current_altitude >= MIN_DESCENT_HEIGHT
         THEN Descent(PIDOutput(pids["z"], -current_altitude), TRUE)
         ELSE Descent(0, FALSE)

\* control_descent_constant_altitude()
control_descent_constant_altitude(pids, P, current_altitude) ==
    IF ~P.ENABLE_DESCEND_TO_TARGET
    THEN Descent(0, FALSE)
    ELSE IF current_altitude > MIN_DESCENT_HEIGHT
         THEN Descent(PIDOutput(pids["z"], -current_altitude), TRUE)
         ELSE Descent(0, FALSE)

\* control_descent_constant_distance without the floor: pid_z is evaluated
\* at every altitude.
control_descent_constant_distance_no_floor(pids, P, current_altitude, error_y) ==
    Descent(PIDOutput(pids["z"], error_y), TRUE)

\* control_descent_constant_distance(error_y)
control_descent_constant_distance(pids, P, current_altitude, error_y) ==
    IF current_altitude > MIN_DESCENT_HEIGHT
    THEN Descent(PIDOutput(pids["z"], error_y), TRUE)
    ELSE Descent(0, FALSE)

\* What calculate_velocity_commands read and computed: the target and the
\* telemetry it was given, the adjusted coordinates, the error terms, the
\* PIDs it called and the command it returned.
Calc(t, att, alt, rd, adj, ex, ey, ev, cmd) ==
    [op |-> "calculate_velocity_commands", target |-> t, attitude |-> att,
     altitude |-> alt, reading |-> rd, adjusted |-> adj,
     error_x |-> ex, error_y |-> ey, evaluated |-> ev,
     command |-> cmd]
NoCalc ==
    [op |-> "none", target |-> <<0, 0>>, attitude |-> <<0, 0>>, altitude |-> 0,
     reading |-> NoReading, adjusted |-> <<0, 0>>, error_x |-> 0, error_y |-> 0,
     evaluated |-> {},
     command |-> <<0, 0, 0>>]

\* calculate_velocity_commands that evaluates the PIDs with the gains the
\* previous step left, and refreshes them afterwards.
calculate_velocity_commands_cached_gains(pids, P, target, attitude, current_altitude, reading) ==
    LET tuned == pids
        adjusted == apply_adjustment_factors(P,
                        apply_gimbal_corrections(P, target, attitude))
        error_x == tuned["x"].setpoint - adjusted[1]
        error_y == tuned["y"].setpoint - adjusted[2]
    IN IF P.CONTROL_STRATEGY = "constant_altitude"
       THEN LET vel_x == PIDOutput(tuned["x"], error_y)
                vel_y == PIDOutput(tuned["y"], error_x)
                dz == control_descent_constant_altitude(tuned, P, current_altitude)
            IN Calc(target, attitude, current_altitude, reading, adjusted,
                    error_x, error_y,
                    {"x", "y"} \cup (IF dz.pid_z_called THEN {"z"} ELSE {}),
                    <<vel_x, vel_y, dz.vel_z>>)
       ELSE LET vel_y == PIDOutput(tuned["y"], error_x)
                dz == control_descent_constant_distance(tuned, P, current_altitude, error_y)
            IN Calc(target, attitude, current_altitude, reading, adjusted,
                    error_x, error_y,
                    {"y"} \cup (IF dz.pid_z_called THEN {"z"} ELSE {}),
                    <<0, vel_y, dz.vel_z>>)

\* calculate_velocity_commands(target_coords), with
\* calculate_velocity_constant_altitude and calculate_velocity_constant_distance.
calculate_velocity_commands(pids, P, target, attitude, current_altitude, reading) ==
    LET tuned == update_pid_gains(pids, P, reading)
        adjusted == apply_adjustment_factors(P,
                        apply_gimbal_corrections(P, target, attitude))
        error_x == tuned["x"].setpoint - adjusted[1]
        error_y == tuned["y"].setpoint - adjusted[2]
    IN IF P.CONTROL_STRATEGY = "constant_altitude"
       THEN LET vel_x == PIDOutput(tuned["x"], error_y)
                vel_y == PIDOutput(tuned["y"], error_x)
                dz == control_descent_constant_altitude(tuned, P, current_altitude)
            IN Calc(target, attitude, current_altitude, reading, adjusted,
                    error_x, error_y,
                    {"x", "y"} \cup (IF dz.pid_z_called THEN {"z"} ELSE {}),
                    <<vel_x, vel_y, dz.vel_z>>)
       ELSE LET vel_y == PIDOutput(tuned["y"], error_x)
                dz == control_descent_constant_distance(tuned, P, current_altitude, error_y)
            IN Calc(target, attitude, current_altitude, reading, adjusted,
                    error_x, error_y,
                    {"y"} \cup (IF dz.pid_z_called THEN {"z"} ELSE {}),
                    <<0, vel_y, dz.vel_z>>)

\* The input each PID is called with in a control step c: pid_x(error_y)
\* (line 146), pid_y(error_x) (147, 163), pid_z(-current_altitude) (188) or
\* pid_z(error_y) (201).
PIDInputs(P, c) ==
    [x |-> c.error_y,
     y |-> c.error_x,
     z |-> IF P.CONTROL_STRATEGY = "constant_altitude" THEN -c.altitude ELSE c.error_y]

\* self.pid_x, self.pid_y, self.pid_z after the control step c: the gains
\* refreshed (update_pid_gains), and the state of every PID the step called
\* as its evaluation leaves it.
evaluated_pids(pids, P, c) ==
    LET tuned == update_pid_gains(pids, P, c.reading)
    IN [a \in Axes |->
          IF a \in c.evaluated
          THEN PIDEvaluated(tuned[a], PIDInputs(P, c)[a])
          ELSE tuned[a]]

VelocityFields == {"vel_x", "vel_y", "vel_z", "timestamp", "status"}

\* A write of latest_velocities that has stored vel_x only.
update_latest_velocities_vel_x_only(command) ==
    /\ latest_velocities' = [latest_velocities EXCEPT !.vel_x = command[1]]
    /\ written' = {"vel_x"}

\* self.latest_velocities.update({...}): one call that stores all five fields.
update_latest_velocities(command) ==
    /\ latest_velocities' =
          [vel_x |-> command[1], vel_y |-> command[2], vel_z |-> command[3],
           timestamp |-> "utcnow", status |-> "active"]
    /\ written' = VelocityFields

\* self.latest_velocities as BaseFollower leaves it: no command yet.
IdleVelocities ==
    [vel_x |-> 0, vel_y |-> 0, vel_z |-> 0, timestamp |-> "None", status |-> "idle"]

\* What the reader holds: nothing, or one read of latest_velocities together
\* with the fields the last control step had written when it read.
NoSnapshot == [taken |-> FALSE, values |-> IdleVelocities, fresh |-> {}]
Snapshot(values, fresh) == [taken |-> TRUE, values |-> values, fresh |-> fresh]

\* What follow_target handed back once its send was over.
FollowReturn(raised) ==
    [NoCalc EXCEPT !.op = IF raised THEN "follow_target raised" ELSE "follow_target"]

\* Follower(px4_controller, initial_target_coords): __init__, initialize_pids.
InitFollower ==
    /\ ControllerAtRest
    /\ CenterUnmodelled
    /\ params \in ParameterSets
    /\ initial_target_coords \in Aims
    /\ \E reading \in Readings :
          /\ params.ENABLE_GAIN_SCHEDULING \/ reading = NoReading
          /\ pid = initialize_pids(params, initial_target_coords, reading)
    /\ latest_velocities = IdleVelocities
    /\ written = {}
    /\ calc = NoCalc
    /\ follow_pc = "idle"
    /\ snapshot = NoSnapshot

\* follow_target(target_coords) up to its await: calculate_velocity_commands,
\* then the call of px4_controller.send_body_velocity_commands(setpoint).
FollowTarget(target, attitude, current_altitude, reading) ==
    /\ follow_pc = "idle"
    /\ \E c \in {calculate_velocity_commands(pid, params, target, attitude,
                                              current_altitude, reading)} :
          /\ pid' = evaluated_pids(pid, params, c)
          /\ update_latest_velocities(c.command)
          /\ calc' = c
    /\ follow_pc' = "send"
    /\ snapshot' = NoSnapshot
    /\ UNCHANGED <<params, initial_target_coords, centering, controller>>

\* follow_target that sends the command again when the send raises.
FollowSendDone_retries(ok) ==
    /\ follow_pc = "send"
    /\ follow_pc' = IF ok THEN "idle" ELSE "send"
    /\ calc' = IF ok THEN FollowReturn(FALSE) ELSE calc
    /\ snapshot' = NoSnapshot
    /\ UNCHANGED <<params, initial_target_coords, pid, latest_velocities, written>>
    /\ UNCHANGED <<centering, controller>>

\* send_body_velocity_commands returns (ok) or raises: follow_target ends.
FollowSendDone(ok) ==
    /\ follow_pc = "send"
    /\ follow_pc' = "idle"
    /\ calc' = FollowReturn(~ok)
    /\ snapshot' = NoSnapshot
    /\ UNCHANGED <<params, initial_target_coords, pid, latest_velocities, written>>
    /\ UNCHANGED <<centering, controller>>

\* The reader of the shared command (the setpoint sender) takes its copy
\* while the control tick is under way, suspended in its send.
ReadVelocities ==
    /\ follow_pc = "send"
    /\ snapshot' = Snapshot(latest_velocities, written)
    /\ UNCHANGED <<params, initial_target_coords, pid, latest_velocities, written,
                   calc, follow_pc>>
    /\ UNCHANGED <<centering, controller>>

Attitudes == {<<0, 0>>, <<1, -1>>}

NextFollower ==
    \/ \E target \in Coords \X Coords, current_altitude \in Altitudes :
          \E attitude \in IF params.IS_CAMERA_GIMBALED THEN {<<0, 0>>} ELSE Attitudes :
             \E reading \in IF params.ENABLE_GAIN_SCHEDULING THEN Readings ELSE {NoReading} :
                FollowTarget(target, attitude, current_altitude, reading)
    \/ \E ok \in BOOLEAN : FollowSendDone(ok)
    \/ ReadVelocities

SpecFollower == InitFollower /\ [][NextFollower]_vars

----------------------------------------------------------------------------
\* The tracker's centre: base_tracker.py.  The code divides in floating
\* point; a quotient is kept here as the exact fraction <<numerator,
\* denominator>> in lowest terms, denominator positive.

MaxDim == 4

RECURSIVE GCD(_, _)
GCD(a, b) == IF b = 0 THEN a ELSE GCD(b, a % b)

\* The fraction n / d, d /= 0.
Fraction(n, d) ==
    LET sn == IF d < 0 THEN -n ELSE n
        sd == IF d < 0 THEN -d ELSE d
        g == GCD(IF sn < 0 THEN -sn ELSE sn, sd)
    IN <<sn \div g, sd \div g>>
FractionMinus(r, q) == Fraction(r[1] * q[2] - q[1] * r[2], r[2] * q[2])
FractionOver(r, q) == Fraction(r[1] * q[2], r[2] * q[1])
FractionLeq(r, q) == r[1] * q[2] <= q[1] * r[2]

\* None, as a value of center and of normalized_center.
None == <<>>

\* normalize_center_coordinates with the frame's width used for both axes.
normalize_center_coordinates_width_only(c, size, old) ==
    IF c /= None
    THEN LET frame_width == size[1]
         IN << FractionOver(FractionMinus(Fraction(c[1], 1), Fraction(frame_width, 2)),
                            Fraction(frame_width, 2)),
               FractionOver(FractionMinus(Fraction(c[2], 1), Fraction(frame_width, 2)),
                            Fraction(frame_width, 2)) >>
    ELSE old

\* normalize_center_coordinates(): the new normalized_center, for center c,
\* video_handler size (width, height) and the stored value old.
normalize_center_coordinates(c, size, old) ==
    IF c /= None
    THEN LET frame_width == size[1]
             frame_height == size[2]
         IN << FractionOver(FractionMinus(Fraction(c[1], 1), Fraction(frame_width, 2)),
                            Fraction(frame_width, 2)),
               FractionOver(FractionMinus(Fraction(c[2], 1), Fraction(frame_height, 2)),
                            Fraction(frame_height, 2)) >>
    ELSE old

\* BaseTracker.__init__, on a video_handler of some width and height.
InitCenter ==
    /\ ControllerAtRest
    /\ FollowerUnmodelled
    /\ frame_size \in (1..MaxDim) \X (1..MaxDim)
    /\ center = None
    /\ normalized_center = None

\* set_center(value)
SetCenter(value) ==
    /\ center' = value
    /\ normalized_center' = normalize_center_coordinates(value, frame_size, normalized_center)
    /\ UNCHANGED <<frame_size, following, controller>>

\* The centres a tracker may set: None, or a pixel of the frame, its far
\* edges included.
Centers == {None} \cup ((0..frame_size[1]) \X (0..frame_size[2]))

NextCenter == \E value \in Centers : SetCenter(value)

SpecCenter == InitCenter /\ [][NextCenter]_vars

----------------------------------------------------------------------------
\* The coroutines inside the offboard sequence of connect_px4 (between its
\* call of px4_interface.connect() and its return).
Connecting == {t \in Tasks : pc[t] \in ConnectPcs}

\* C1: connect is single-flight: over any interleaving of connect calls at
\* most one of them is inside the connect / send_initial_setpoint /
\* start_offboard_mode sequence, and none is while the session is Offboard.
C1_ConnectSingleFlight ==
    /\ Cardinality(Connecting) <= 1
    /\ following_active => Connecting = {}

\* C2: when connect returns an error the session is Disconnected and the
\* controller holds no Follower.
C2_FailedConnectLeavesNothing ==
    (ret.op = "connect" /\ ret.errors /= {}) =>
        (~following_active /\ follower = "None")

\* C3: whenever the session is Offboard a SetpointSender is running.
C3_SenderRunsWhileOffboard ==
    following_active => setpoint_sender = "Running"

\* C4: no fault of a collaborator called inside the tick leaves update_loop
\* as an exception: every tick returns a frame.
C4_TickNeverRaises ==
    ret.op = "tick" => ~ret.raised

\* C5: a disconnect that found the session Offboard returns (it never raises)
\* with the session Disconnected and no SetpointSender, also when
\* stop_offboard_mode failed, the failure being listed in its errors.
C5_DisconnectAlwaysDisconnects ==
    (ret.op = "disconnect" /\ "Follow mode is not active." \notin ret.steps) =>
        /\ ~ret.raised
        /\ ~following_active
        /\ setpoint_sender = "None"

\* C6: disconnect called while the session is Disconnected is a no-op: the
\* step calls nothing on the flight link (no coroutine gets suspended on a
\* call), changes no state of the controller, and returns, without raising,
\* the result "Follow mode is not active.".
C6_DisconnectWhenDisconnectedIsNoop ==
    [][\A t \in Tasks :
          (~following_active /\ DisconnectBegin(t)) =>
              /\ UNCHANGED <<ctrl, tracker, current_frame, config, video_released>>
              /\ UNCHANGED <<pc, tick, sd_pc>>
              /\ ret' = Return("disconnect", {"Follow mode is not active."}, {}, FALSE)]_vars

\* C6 witness: disconnect has just returned "not active" in a state with
\* tracking on and a Follower left by an earlier connect, the session Disconnected.
C6_Witness ==
    /\ ret = Return("disconnect", {"Follow mode is not active."}, {}, FALSE)
    /\ ~following_active
    /\ tracking_started
    /\ follower = "Follower"

\* C7: cancel_activities returns (it does not raise) and leaves tracking Idle,
\* segmentation Off and no SetpointSender referenced by the controller.
C7_CancelLeavesIdle ==
    ret.op = "cancel_activities" =>
        /\ ~ret.raised
        /\ ~tracking_started
        /\ ~segmentation_active
        /\ setpoint_sender = "None"

\* C7 witness: cancel_activities has just run during an Offboard session while
\* the tick was suspended in follow_target (so tracking was on when it ran).
C7_Witness ==
    /\ ret.op = "cancel_activities"
    /\ following_active
    /\ tick_pc = "f_send1"
    /\ ~tracking_started

\* C8: every shutdown that returns has released the capture, unless the
\* release itself is the call that failed: a failure of an earlier step does
\* not keep video_handler.release() from running.
C8_ShutdownAlwaysReleases ==
    (ret.op = "shutdown" /\ sd_pc = "done") =>
        (video_released \/ ret.errors = {ShutdownError("release")})

\* C9: a Follower exists only during a session: while the session is
\* Disconnected and no connect is in progress the controller holds none.
C9_FollowerOnlyInSession ==
    (~following_active /\ Connecting = {}) => follower = "None"

\* C10: following_active changes only in a step that returns from connect,
\* disconnect or shutdown: no step of the tick, of toggle_tracking,
\* toggle_segmentation, start_tracking, stop_tracking, cancel_activities,
\* redetection or the click handler changes it.
C10_FollowingChangesOnlyInTransitions ==
    [][following_active' /= following_active =>
          ret'.op \in {"connect", "disconnect", "shutdown"}]_vars

\* C10 witness: cancel_activities has just run during an Offboard session and
\* the session is still Offboard.
C10_Witness ==
    /\ ret.op = "cancel_activities"
    /\ following_active

\* C11: toggle_tracking called while Idle (tracking_started false) calls the
\* tracker exactly when the selected box has width > 0 and height > 0: then
\* the tracker is initialised and tracking becomes Tracking as soon as the
\* tracker returns (the call raises, and stays Idle, when the tracker
\* raises); for any other selection the call returns normally, stays Idle,
\* leaves the tracker as it was and changes no other state.
C11_ToggleTrackingNeedsProperBox ==
    [][(~tracking_started /\ ret'.op = "toggle_tracking") =>
          /\ ret'.bbox \in Sizes \X Sizes
          /\ IF ret'.bbox[1] > 0 /\ ret'.bbox[2] > 0
             THEN /\ tracking_started' = ~ret'.raised
                  /\ tracking_started' => tracker_inited'
             ELSE /\ UNCHANGED <<ctrl, tracker, current_frame, config, units>>
                  /\ UNCHANGED <<video_released, pc, tick, sd_pc>>
                  /\ ~ret'.raised]_vars

\* C11 witness: toggle_tracking has just moved the controller to Tracking,
\* the tracker initialised on the frame's selection, a box of width 1 and
\* height 1.
C11_Witness ==
    /\ ret = Selected(Return("toggle_tracking", {}, {}, FALSE), 1, 1)
    /\ tracking_started
    /\ tracker_inited
    /\ ~segmentation_active

\* C12: start_tracking(bbox) called while Idle with a box whose width <= 0
\* or height <= 0 leaves tracking Idle and does not initialise the tracker.
C12_StartTrackingNeedsProperBox ==
    [][\A w \in Sizes, h \in Sizes, ok \in BOOLEAN :
          (~tracking_started /\ StartTracking(w, h, ok) /\ ~(w > 0 /\ h > 0)) =>
             UNCHANGED <<tracking_started, tracker_inited>>]_vars

----------------------------------------------------------------------------
\* The Follower's claims, of SpecFollower.  Stepped: a control step has just
\* computed its command (follow_target is suspended in the send).
Stepped == calc.op = "calculate_velocity_commands"
Abs(v) == IF v < 0 THEN -v ELSE v

\* C13: in the constant_altitude strategy a control step at an altitude at
\* or below MIN_DESCENT_HEIGHT computes vel_z = 0 and does not evaluate
\* pid_z: pid_z is evaluated only above the floor.
C13_DescentHaltsAtFloor ==
    (Stepped /\ params.CONTROL_STRATEGY = "constant_altitude") =>
       /\ calc.altitude <= MIN_DESCENT_HEIGHT =>
             (calc.command[3] = 0 /\ latest_velocities.vel_z = 0 /\ "z" \notin calc.evaluated)
       /\ "z" \in calc.evaluated => calc.altitude > MIN_DESCENT_HEIGHT

\* C13 witness: a constant_altitude step with descent enabled, exactly at the
\* floor, has computed vel_z = 0.
C13_Witness ==
    /\ Stepped
    /\ params.CONTROL_STRATEGY = "constant_altitude"
    /\ params.ENABLE_DESCEND_TO_TARGET
    /\ calc.altitude = MIN_DESCENT_HEIGHT
    /\ calc.command[3] = 0

\* C14: with gain scheduling enabled, a control step given the reading v sets
\* on every axis the gains of the interval with lower <= v < upper: a reading
\* equal to an interval's lower bound selects that interval, a reading equal
\* to its upper bound does not.
C14_GainScheduleHalfOpen ==
    (Stepped /\ params.ENABLE_GAIN_SCHEDULING /\ calc.reading.available) =>
       \A a \in Axes, k \in DOMAIN ALTITUDE_GAIN_SCHEDULE :
          LET interval == ALTITUDE_GAIN_SCHEDULE[k]
              v == calc.reading.value
          IN /\ (interval.lower <= v /\ v < interval.upper) =>
                   pid[a].tunings = interval.gains[a]
             /\ v = interval.upper => pid[a].tunings /= interval.gains[a]

\* C14 witness: a step whose reading is the bound shared by the two
\* intervals has set the gains of the second one.
C14_Witness ==
    /\ Stepped
    /\ params.ENABLE_GAIN_SCHEDULING
    /\ calc.reading = Reading(ALTITUDE_GAIN_SCHEDULE[2].lower)
    /\ calc.reading.value = ALTITUDE_GAIN_SCHEDULE[1].upper
    /\ pid["y"].tunings = ALTITUDE_GAIN_SCHEDULE[2].gains["y"]

\* C15 (as stated): every component of the command of a control step is
\* within the velocity limit of its axis: |vel_x| <= limit_x,
\* |vel_y| <= limit_y, |vel_z| <= limit_z.
C15_WithinAxisLimits ==
    Stepped =>
       /\ Abs(calc.command[1]) <= VELOCITY_LIMITS["x"]
       /\ Abs(calc.command[2]) <= VELOCITY_LIMITS["y"]
       /\ Abs(calc.command[3]) <= VELOCITY_LIMITS["z"]

\* C15 (amended): vel_x and vel_y are within the velocity limits of their
\* axes; vel_z is within MAX_RATE_OF_DESCENT in the constant_altitude
\* strategy and within the z velocity limit in constant_distance.
C15_WithinConfiguredLimits ==
    Stepped =>
       /\ Abs(calc.command[1]) <= VELOCITY_LIMITS["x"]
       /\ Abs(calc.command[2]) <= VELOCITY_LIMITS["y"]
       /\ Abs(calc.command[3]) <=
             IF params.CONTROL_STRATEGY = "constant_altitude"
             THEN params.MAX_RATE_OF_DESCENT
             ELSE VELOCITY_LIMITS["z"]

\* C15 witness: a constant_altitude step whose vel_y sits on the y limit and
\* whose vel_z sits on a descent rate above the z limit.
C15_Witness ==
    /\ Stepped
    /\ params.CONTROL_STRATEGY = "constant_altitude"
    /\ params.MAX_RATE_OF_DESCENT > VELOCITY_LIMITS["z"]
    /\ Abs(calc.command[2]) = VELOCITY_LIMITS["y"]
    /\ Abs(calc.command[3]) = params.MAX_RATE_OF_DESCENT

----------------------------------------------------------------------------
----------------------------------------------------------------------------
\* C17: a reader of the shared command running while a control tick is under
\* way never reads a torn write: in every snapshot vel_x, vel_y, vel_z and
\* status (and the timestamp) were all written by the same control step, and
\* are the command that step computed.
C17_NoTornRead ==
    snapshot.taken =>
       /\ snapshot.fresh = VelocityFields
       /\ snapshot.values.status = "active"
       /\ <<snapshot.values.vel_x, snapshot.values.vel_y, snapshot.values.vel_z>>
             = calc.command

\* C17 witness: the reader has taken a snapshot of a command that moves the
\* vehicle on two axes, while follow_target is suspended in its send.
C17_Witness ==
    /\ snapshot.taken
    /\ follow_pc = "send"
    /\ snapshot.values.vel_y /= 0
    /\ snapshot.values.vel_z /= 0

\* C19: in every control step the error terms are error_x = setpoint_x -
\* adj_x and error_y = setpoint_y - adj_y, (setpoint_x, setpoint_y) being the
\* initial target lock and (adj_x, adj_y) the adjusted target, in both
\* strategies.
C19_ErrorTerms ==
    Stepped =>
       /\ calc.error_x = initial_target_coords[1] - calc.adjusted[1]
       /\ calc.error_y = initial_target_coords[2] - calc.adjusted[2]

----------------------------------------------------------------------------
\* C18: in every connect the steps come in the order: flight link opened,
\* Follower constructed, initial setpoint sent, offboard mode started,
\* session set to Offboard.  A connect sends the initial setpoint only once
\* its link is open and its Follower constructed, starts offboard mode only
\* once its own initial setpoint has been sent, and the session becomes
\* Offboard only in the step in which a start_offboard_mode returns.
C18_ConnectStepOrder ==
    [][/\ \A t \in Tasks :
             /\ (pc'[t] = "c_connect" /\ pc[t] /= "c_connect") => pc[t] = "idle"
             /\ (pc'[t] = "c_initsp" /\ pc[t] /= "c_initsp") =>
                   (pc[t] = "c_connect" /\ follower' = "Follower")
             /\ (pc'[t] = "c_offboard" /\ pc[t] /= "c_offboard") => pc[t] = "c_initsp"
       /\ (following_active' /\ ~following_active) =>
             /\ \E t \in Tasks : pc[t] = "c_offboard" /\ pc'[t] = "idle"
             /\ ret' = Return("connect", {"Offboard mode started."}, {}, FALSE)]_vars

\* C18 witness: a connect has gone through all its steps: it has just
\* returned with the session Offboard and the Follower in place.
C18_Witness ==
    /\ ret = Return("connect", {"Offboard mode started."}, {}, FALSE)
    /\ following_active
    /\ follower = "Follower"
    /\ Connecting = {}

\* C20: a tick invokes Follower.follow_target (and so computes and sends a
\* velocity command) if and only if tracking is Tracking, the tracker update
\* of that tick was made and succeeded, and the session is Offboard.
\* Only if: the loop enters follow_target from its idle point alone, with
\* Tracking and Offboard, and no tick whose update was lost or raised (or
\* whose segmentation raised) enters it.  If: no tick of a Tracking
\* controller in an Offboard session whose update succeeded returns without
\* entering follow_target.
C20_FollowOnlyWhenTrackingAndOffboard ==
    [][/\ (tick_pc' = "f_send1" /\ tick_pc /= "f_send1") =>
             /\ tick_pc = "idle"
             /\ tracking_started
             /\ following_active
             /\ \A f \in Frames, segOk \in Outcomes(segmentation_active), upd \in Updates :
                   TickBegin(f, segOk, upd, "none", TRUE) => (segOk /\ upd = "ok")
       /\ (tick_pc = "idle" /\ ret'.op = "tick" /\ tracking_started /\ following_active) =>
             \A f \in Frames, telOk \in BOOLEAN :
                ~TickBegin(f, TRUE, "ok", "none", telOk)]_vars

\* C20 witness: a tick of a Tracking controller in an Offboard session is
\* inside follow_target, its first send under way.
C20_Witness ==
    /\ tick_pc = "f_send1"
    /\ tracking_started
    /\ following_active

\* C28: in every reachable state Tracking implies that the tracker's
\* start_tracking / reinitialize_tracker has returned at least once: the flag
\* is set only after the call has returned, so a tick never calls
\* tracker.update (made exactly when tracking_started) on a tracker that was
\* never started.
C28_TrackingHasStartedTracker ==
    tracking_started => tracker_inited

\* C28 witness: a tick has just run, and returned, with tracking Tracking on
\* a started tracker: it called tracker.update.
C28_Witness ==
    /\ ret = Return("tick", {}, {}, FALSE)
    /\ tracking_started
    /\ tracker_inited

\* C23: toggle_tracking and stop_tracking called while Tracking have exactly
\* the effect of cancel_activities: tracking becomes Idle, segmentation Off,
\* a running SetpointSender is stopped, and the session and everything else
\* are left as they were.
C23_StopIsCancelActivities ==
    [][(tracking_started /\ ret'.op \in {"toggle_tracking", "stop_tracking"}) =>
          /\ cancel_activities
          /\ ~tracking_started'
          /\ ~segmentation_active'
          /\ setpoint_sender' = "None"
          /\ UNCHANGED <<following_active, follower, current_frame>>
          /\ UNCHANGED <<tracker, config, units, video_released, pc, tick, sd_pc>>
          /\ ~ret'.raised]_vars

\* C23 witness: stop_tracking has just returned in an Offboard session,
\* leaving tracking Idle and segmentation Off.
C23_Witness ==
    /\ ret = Return("stop_tracking", {}, {}, FALSE)
    /\ ~tracking_started
    /\ ~segmentation_active
    /\ following_active

\* C27: over any interleaving of a tick with a disconnect, the tick issues
\* no body-velocity command once disconnect has set the session to
\* Disconnected: the second send of follow_target is issued only while the
\* session is Offboard.
C27_NoSendAfterDisconnect ==
    [][(tick_pc = "f_send1" /\ tick_pc' = "f_send2") => following_active]_vars

\* C21: a failed tracker update never moves tracking to Idle and is never
\* raised as an exception.  Every tick of a Tracking controller that ends
\* without following (every tick whose update failed is one) leaves tracking
\* Tracking and the loop at its idle point, where the next tick calls
\* tracker.update again; a tick whose update failed does not raise when the
\* detector (disabled, finding nothing, or finding a box) and the telemetry
\* return; and when redetection finds a box the tick reinitialises the
\* tracker.
C21_LostUpdateKeepsTracking ==
    [][(tick_pc = "idle" /\ tracking_started /\ ret'.op = "tick") =>
          /\ tracking_started'
          /\ tick_pc' = "idle"
          /\ ret'.raised =>
                \A f \in Frames :
                \A red \in Detections(use_detector /\ auto_redetect) \ {"fault"} :
                   ~TickBegin(f, TRUE, "lost", red, TRUE)
          /\ (use_detector /\ auto_redetect) =>
                \A f \in Frames :
                   TickBegin(f, TRUE, "lost", "found", TRUE) =>
                      (tracker_inited' /\ ret'.frame /= <<>>)]_vars

\* C21 witness: a tick whose update failed has just returned, redetection
\* having run, and tracking is still Tracking with the loop ready for the
\* next tick.
C21_Witness ==
    /\ ret.op = "tick"
    /\ ~ret.raised
    /\ ret.frame /= <<>>
    /\ tracking_started
    /\ tick_pc = "idle"

\* C22: when a tick's tracker update fails and auto-redetect is enabled,
\* redetection and the tracker's reinitialisation run on the frame passed to
\* that tick: at the tick's return, the frame redetection was given is the
\* frame the tick has just stored as current_frame.
C22_RedetectionOnTickFrame ==
    (ret.op = "tick" /\ ~ret.raised /\ ret.frame /= <<>>) =>
       ret.frame = <<current_frame>>

----------------------------------------------------------------------------
\* C24: while descent is halted at the floor (current_altitude <=
\* MIN_DESCENT_HEIGHT), in both strategies, a control step leaves the z-axis
\* PID state (integral accumulator, last error) as it was.
C24_FloorFreezesPidZ ==
    [][(follow_pc = "idle" /\ Stepped' /\ calc'.altitude <= MIN_DESCENT_HEIGHT) =>
          /\ pid'["z"].integral = pid["z"].integral
          /\ pid'["z"].last_error = pid["z"].last_error
          /\ "z" \notin calc'.evaluated]_vars

\* C24 witness: a constant_distance step at the floor, taken with a pid_z
\* that earlier steps had evaluated and whose accumulator is not empty.
C24_Witness ==
    /\ Stepped
    /\ params.CONTROL_STRATEGY = "constant_distance"
    /\ calc.altitude = MIN_DESCENT_HEIGHT
    /\ pid["z"].last_error /= <<>>
    /\ pid["z"].integral /= 0

\* The place of each axis in a command (vel_x, vel_y, vel_z).
AxisIndex == [x |-> 1, y |-> 2, z |-> 3]

\* C25: a control step never fails over the scheduling value: when the value
\* is unavailable or lies in no interval of the schedule (or scheduling is
\* off) the step sets the static default gains of each axis; and the gains
\* a step sets, and evaluates its PIDs with, are those selected from the
\* value read in that same step, whatever gains the earlier steps left.
C25_GainsFreshOrDefault ==
    [][(follow_pc = "idle" /\ Stepped') =>
          \A a \in Axes :
             LET reading == calc'.reading
                 covered == \E k \in DOMAIN ALTITUDE_GAIN_SCHEDULE :
                               /\ ALTITUDE_GAIN_SCHEDULE[k].lower <= reading.value
                               /\ reading.value < ALTITUDE_GAIN_SCHEDULE[k].upper
                 selected == get_pid_gains(params, a, reading)
             IN /\ (~params.ENABLE_GAIN_SCHEDULING \/ ~reading.available \/ ~covered) =>
                      pid'[a].tunings = PID_GAINS[a]
                /\ pid'[a].tunings = selected
                /\ a \in calc'.evaluated =>
                      calc'.command[AxisIndex[a]] =
                         PIDOutput([pid[a] EXCEPT !.tunings = selected],
                                   PIDInputs(params, calc')[a])]_vars

\* C25 witness: with scheduling enabled, a step that found no scheduling
\* value has computed its command with the default gains.
C25_Witness ==
    /\ Stepped
    /\ params.ENABLE_GAIN_SCHEDULING
    /\ ~calc.reading.available
    /\ \A a \in Axes : pid[a].tunings = PID_GAINS[a]
    /\ calc.command[1] /= 0

\* C26: each call of Follower.follow_target computes one command and hands
\* it to the flight link once: the call goes from the computation straight
\* into its send, and the first thing to happen to the send ends the call,
\* normally when the send returned and with the send's exception when it
\* raised; nothing is computed or sent again in between.
C26_OneSendNoRetry ==
    [][/\ follow_pc = "idle" =>
             /\ follow_pc' = "send"
             /\ Stepped'
             /\ <<latest_velocities'.vel_x, latest_velocities'.vel_y,
                  latest_velocities'.vel_z>> = calc'.command
       /\ follow_pc = "send" =>
             IF snapshot'.taken
             THEN UNCHANGED <<follow_pc, calc, pid, latest_velocities>>
             ELSE /\ follow_pc' = "idle"
                  /\ UNCHANGED <<pid, latest_velocities>>
                  /\ \A ok \in BOOLEAN :
                        FollowSendDone(ok) =>
                           calc'.op = IF ok THEN "follow_target"
                                      ELSE "follow_target raised"]_vars

\* C26 witness: a call of follow_target has ended in the exception of its
\* send, the command it computed still the latest one.
C26_Witness ==
    /\ follow_pc = "idle"
    /\ calc.op = "follow_target raised"
    /\ latest_velocities.status = "active"
====
